---- MODULE Spec2Model ----
(***************************************************************************)
(* Measurement pipeline of breitbandmessung (src/main.rs, src/mqtt.rs).    *)
(*                                                                         *)
(* main() spawns three tasks that run until the process ends:              *)
(*   speed_test_task      the scheduler: perform_all_tests, send, sleep    *)
(*   mqtt_publish_task    the publisher: recv, format, publish             *)
(*   mqtt_eventloop_task  the connection pump: poll, break on error        *)
(* and joins all three.  The scheduler hands TestResults to the publisher  *)
(* over a tokio mpsc channel of capacity 1.                                *)
(*                                                                         *)
(* publish_discovery_message (src/mqtt.rs) is modelled as a function of    *)
(* its own (DiscSpec): main.rs never calls it.                             *)
(***************************************************************************)
EXTENDS Integers, Sequences, FiniteSets, TLC

\* ------------------------------------------------------------------ bounds
MaxCycles == 3
MaxPolls == 1

\* --------------------------------------------------------------- constants
ChannelCapacity == 1
MaxAttempts == 3

Probes == {"download", "upload", "ping"}

\* What awaiting one spawned probe task yields: Ok(Ok(v)), Ok(Err(e)) or
\* Err(JoinError).
ProbeOutcomes == {"ok", "err", "panic"}

VARIABLES
    \* scheduler (speed_test_task)
    schedPc,        \* "idle" | "probing" | "send" | "sleep" | "exited"
    cycle,          \* number of cycles started
    probe,          \* the three probe tasks of the latest cycle
    pending,        \* the TestResults the scheduler is sending
    schedLog,       \* levels of the lines the scheduler logged
    \* hand-off channel
    chan,           \* buffered TestResults, oldest first
    \* publisher (mqtt_publish_task)
    pubPc,          \* "recv" | "publish" | "exited"
    pubCur,         \* the TestResults being published
    pubLog,         \* publish attempts on speedtest/results, in order
    \* connection pump (mqtt_eventloop_task)
    pumpPc,         \* "poll" | "exited"
    pumpEvents,     \* notifications polled
    \* history
    produced,       \* TestResults returned Ok by perform_all_tests, in order
    received,       \* TestResults returned by recv, in order
    failedCycles,   \* cycles in which some probe did not yield Ok(Ok(v))
    lastResult,     \* what the latest perform_all_tests returned
    finishOrder,    \* the probes of the running iteration, in the order they finished
    sleeps,         \* sleeps of the scheduler that have elapsed
    pushed,         \* TestResults whose send returned Ok, in order
    \* publish_discovery_message
    discPc,         \* "publish" | "sleep" | "done"
    discIdx,        \* index of the descriptor in discovery_messages
    discAttempt,    \* attempt of the inner for loop
    discLog,        \* publish attempts and sleeps, in order
    discRet         \* "none" | "Ok" | "Err"

schedVars == <<schedPc, cycle, probe, pending, schedLog>>
pubVars == <<pubPc, pubCur, pubLog>>
pumpVars == <<pumpPc, pumpEvents>>
histVars == <<produced, received, failedCycles>>
cycleVars == <<lastResult, finishOrder, sleeps, pushed>>
pipeVars == <<schedVars, chan, pubVars, pumpVars, histVars, cycleVars>>
discVars == <<discPc, discIdx, discAttempt, discLog, discRet>>
vars == <<pipeVars, discVars>>

\* ------------------------------------------------------------ TestResults
NoResults == [cycle |-> 0, download |-> "none", upload |-> "none", ping |-> "none"]

NoError == [type |-> "none", probe |-> "none"]

TaskJoinError == [type |-> "TaskJoinError", probe |-> "none"]

ProbeError(k) == [type |-> "ProbeError", probe |-> k]

\* no perform_all_tests has returned yet
NoResult == [ok |-> FALSE, value |-> NoResults, error |-> NoError]

\* `x.map_err(|_| ServiceError::TaskJoinError)??` on one joined probe
Flatten(p, k) ==
    IF p[k] = "panic" THEN TaskJoinError
    ELSE IF p[k] = "err" THEN ProbeError(k)
    ELSE NoError

PerformAllTests_IgnoreUpload(p, c) ==
    IF Flatten(p, "download") # NoError
    THEN [ok |-> FALSE, value |-> NoResults, error |-> Flatten(p, "download")]
    ELSE IF Flatten(p, "ping") # NoError
    THEN [ok |-> FALSE, value |-> NoResults, error |-> Flatten(p, "ping")]
    ELSE [ok |-> TRUE, error |-> NoError,
          value |-> [cycle |-> c, download |-> p["download"],
                     upload |-> p["upload"], ping |-> p["ping"]]]

PerformAllTests_PingFirst(p, c) ==
    IF Flatten(p, "ping") # NoError
    THEN [ok |-> FALSE, value |-> NoResults, error |-> Flatten(p, "ping")]
    ELSE IF Flatten(p, "upload") # NoError
    THEN [ok |-> FALSE, value |-> NoResults, error |-> Flatten(p, "upload")]
    ELSE IF Flatten(p, "download") # NoError
    THEN [ok |-> FALSE, value |-> NoResults, error |-> Flatten(p, "download")]
    ELSE [ok |-> TRUE, error |-> NoError,
          value |-> [cycle |-> c, download |-> p["download"],
                     upload |-> p["upload"], ping |-> p["ping"]]]

\* The value perform_all_tests returns once the three tasks are joined.
PerformAllTests(p, c) ==
    IF Flatten(p, "download") # NoError
    THEN [ok |-> FALSE, value |-> NoResults, error |-> Flatten(p, "download")]
    ELSE IF Flatten(p, "upload") # NoError
    THEN [ok |-> FALSE, value |-> NoResults, error |-> Flatten(p, "upload")]
    ELSE IF Flatten(p, "ping") # NoError
    THEN [ok |-> FALSE, value |-> NoResults, error |-> Flatten(p, "ping")]
    ELSE [ok |-> TRUE, error |-> NoError,
          value |-> [cycle |-> c, download |-> p["download"],
                     upload |-> p["upload"], ping |-> p["ping"]]]

AllJoined_AnyFailed(p) ==
    \/ \A k \in Probes : p[k] \in ProbeOutcomes
    \/ \E k \in Probes : p[k] \in {"err", "panic"}

\* tokio::join! returns when each of the three handles has resolved
AllJoined(p) == \A k \in Probes : p[k] \in ProbeOutcomes

AnyFailed(p) == \E k \in Probes : p[k] # "ok"

\* ---------------------------------------------------------------- channel
\* The sender lives in speed_test_task, the receiver in mqtt_publish_task;
\* each is dropped when its task ends.
TxClosed == schedPc = "exited"

RxClosed == pubPc = "exited"

SendReady_Unbounded(q) == TRUE

SendReady_OffByOne(q) == Len(q) < ChannelCapacity - 1

\* send completes only when a permit of the bounded channel is free
SendReady(q) == Len(q) < ChannelCapacity

RecvRest_Keep(q) == q

\* recv takes the oldest buffered value out of the channel
RecvRest(q) == Tail(q)

\* ---------------------------------------------------------------- scheduler
CycleErrNext_Exit == "exited"

\* after `Err(err) => error!(..)` the loop body falls through to the sleep
CycleErrNext == "sleep"

SendErrNext_NoSleep == "idle"

\* after `warn!("Failed to send ..")` the loop body falls through to the sleep
SendErrNext == "sleep"

\* perform_all_tests: task::spawn of the three probes
StartCycle ==
    /\ schedPc = "idle"
    /\ cycle < MaxCycles
    /\ cycle' = cycle + 1
    /\ probe' = [k \in Probes |-> "running"]
    /\ schedPc' = "probing"
    /\ finishOrder' = <<>>
    /\ UNCHANGED <<pending, schedLog, chan, pubVars, pumpVars, histVars,
                   lastResult, sleeps, pushed, discVars>>

\* one probe task finishes, in any order
ProbeFinish(k) ==
    /\ schedPc = "probing"
    /\ probe[k] = "running"
    /\ \E o \in ProbeOutcomes : probe' = [probe EXCEPT ![k] = o]
    /\ finishOrder' = Append(finishOrder, k)
    /\ UNCHANGED <<schedPc, cycle, pending, schedLog, chan, pubVars, pumpVars,
                   histVars, lastResult, sleeps, pushed, discVars>>

\* tokio::join! returns, perform_all_tests returns, the scheduler matches
JoinAll ==
    /\ schedPc = "probing"
    /\ AllJoined(probe)
    /\ LET r == PerformAllTests(probe, cycle) IN
         /\ lastResult' = r
         /\ IF r.ok
            THEN /\ pending' = r.value
                 /\ produced' = Append(produced, r.value)
                 /\ schedPc' = "send"
                 /\ schedLog' = schedLog
            ELSE /\ pending' = NoResults
                 /\ produced' = produced
                 /\ schedPc' = CycleErrNext
                 /\ schedLog' = Append(schedLog, "error")
    /\ failedCycles' = IF AnyFailed(probe) THEN failedCycles \cup {cycle}
                       ELSE failedCycles
    /\ UNCHANGED <<cycle, probe, chan, pubVars, pumpVars, received,
                   finishOrder, sleeps, pushed, discVars>>

\* result_tx.send(results).await
Send ==
    /\ schedPc = "send"
    /\ IF RxClosed
       THEN /\ chan' = chan
            /\ pushed' = pushed
            /\ schedLog' = Append(schedLog, "warn")
            /\ schedPc' = SendErrNext
       ELSE /\ SendReady(chan)
            /\ chan' = Append(chan, pending)
            /\ pushed' = Append(pushed, pending)
            /\ schedLog' = schedLog
            /\ schedPc' = "sleep"
    /\ pending' = NoResults
    /\ UNCHANGED <<cycle, probe, pubVars, pumpVars, histVars, lastResult,
                   finishOrder, sleeps, discVars>>

\* sleep(check_interval) elapses
Wake ==
    /\ schedPc = "sleep"
    /\ schedPc' = "idle"
    /\ sleeps' = sleeps + 1
    /\ finishOrder' = <<>>
    /\ UNCHANGED <<cycle, probe, pending, schedLog, chan, pubVars, pumpVars,
                   histVars, lastResult, pushed, discVars>>

\* ---------------------------------------------------------------- publisher
PublishNext_ExitOnErr(r) == IF r = "ok" THEN "recv" ELSE "exited"

PublishNext_Retry(r) == IF r = "ok" THEN "recv" ELSE "publish"

\* both arms of the match on the publish result end the loop body
PublishNext(r) == "recv"

\* the line logged for a publish result
PublishLevel(r) == IF r = "ok" THEN "info" ELSE "error"

RecvNone_OnClose(q, closed) == closed

\* recv returns None once every sender is dropped and the buffer is drained
RecvNone(q, closed) == closed /\ q = <<>>

\* result_rx.recv().await
Recv ==
    /\ pubPc = "recv"
    /\ IF RecvNone(chan, TxClosed)
       THEN /\ pubPc' = "exited"
            /\ UNCHANGED <<pubCur, chan, received>>
       ELSE /\ chan # <<>>
            /\ pubCur' = Head(chan)
            /\ chan' = RecvRest(chan)
            /\ received' = Append(received, Head(chan))
            /\ pubPc' = "publish"
    /\ UNCHANGED <<schedVars, pubLog, pumpVars, produced, failedCycles,
                   cycleVars, discVars>>

\* format! and mqtt_client.publish("speedtest/results", AtLeastOnce, false, ..)
Publish ==
    /\ pubPc = "publish"
    /\ \E r \in {"ok", "err"} :
         /\ pubLog' = Append(pubLog, [topic |-> "speedtest/results",
                                      retain |-> FALSE,
                                      payload |-> pubCur,
                                      result |-> r,
                                      level |-> PublishLevel(r)])
         /\ pubPc' = PublishNext(r)
    /\ pubCur' = NoResults
    /\ UNCHANGED <<schedVars, chan, pumpVars, histVars, cycleVars, discVars>>

\* mqtt_publish_task ends abnormally (a panic inside the task); tokio drops
\* the task with result_rx and whatever the channel still buffers.
PublisherAbort ==
    /\ pubPc \in {"recv", "publish"}
    /\ pubPc' = "exited"
    /\ pubCur' = NoResults
    /\ chan' = <<>>
    /\ UNCHANGED <<schedVars, pubLog, pumpVars, histVars, cycleVars, discVars>>

\* speed_test_task ends abnormally (a panic inside the task); tokio drops the
\* task with result_tx, the only sender, and the record it was sending.
SchedulerAbort ==
    /\ schedPc # "exited"
    /\ schedPc' = "exited"
    /\ pending' = NoResults
    /\ UNCHANGED <<cycle, probe, schedLog, chan, pubVars, pumpVars, histVars,
                   cycleVars, discVars>>

\* ------------------------------------------------------------------- pump
\* poll() returned Ok(notification)
PollOk ==
    /\ pumpPc = "poll"
    /\ pumpEvents < MaxPolls
    /\ pumpEvents' = pumpEvents + 1
    /\ UNCHANGED <<pumpPc, schedVars, chan, pubVars, histVars, cycleVars, discVars>>

\* poll() returned Err: error!(..) and break
PollErr ==
    /\ pumpPc = "poll"
    /\ pumpPc' = "exited"
    /\ UNCHANGED <<pumpEvents, schedVars, chan, pubVars, histVars, cycleVars,
                   discVars>>

\* tokio::join! of the three tasks returns and main returns Ok(())
ProcessTerminated ==
    /\ schedPc = "exited"
    /\ pubPc = "exited"
    /\ pumpPc = "exited"

\* ------------------------------------------- publish_discovery_message
DiscoveryMessages ==
    << [name |-> "download", unit |-> "Mbit/s", device_class |-> "data_rate"],
       [name |-> "upload", unit |-> "Mbit/s", device_class |-> "data_rate"],
       [name |-> "ping", unit |-> "ms", device_class |-> "duration"] >>

ConfigTopic(name) == <<"homeassistant", "sensor", "speedtest", name, "config">>

\* the retained publish of one attempt, with its result
DiscPublishEvent(i, a, r) ==
    [ev |-> "publish", name |-> DiscoveryMessages[i].name,
     topic |-> ConfigTopic(DiscoveryMessages[i].name), retain |-> TRUE,
     attempt |-> a, result |-> r]

DiscSleepEvent(i, a) ==
    [ev |-> "sleep", name |-> DiscoveryMessages[i].name,
     topic |-> ConfigTopic(DiscoveryMessages[i].name), retain |-> TRUE,
     attempt |-> a, result |-> "none"]

\* one iteration of `for attempt in 1..=3`: client.publish and the match
DiscPublish ==
    /\ discPc = "publish"
    /\ \E r \in {"ok", "err"} :
         /\ discLog' = Append(discLog, DiscPublishEvent(discIdx, discAttempt, r))
         /\ IF r = "ok"
            THEN \* info!, break: on to the next descriptor
                 IF discIdx < Len(DiscoveryMessages)
                 THEN /\ discIdx' = discIdx + 1
                      /\ discAttempt' = 1
                      /\ discPc' = "publish"
                      /\ discRet' = discRet
                 ELSE /\ discPc' = "done"
                      /\ discRet' = "Ok"
                      /\ UNCHANGED <<discIdx, discAttempt>>
            ELSE IF discAttempt < MaxAttempts
            THEN \* warn!, sleep 1 s
                 /\ discPc' = "sleep"
                 /\ UNCHANGED <<discIdx, discAttempt, discRet>>
            ELSE \* error!, return Err(ServiceError::MqttClientError(err))
                 /\ discPc' = "done"
                 /\ discRet' = "Err"
                 /\ UNCHANGED <<discIdx, discAttempt>>
    /\ UNCHANGED pipeVars

\* tokio::time::sleep(1 s) elapses; the for loop takes the next attempt
DiscWake ==
    /\ discPc = "sleep"
    /\ discLog' = Append(discLog, DiscSleepEvent(discIdx, discAttempt))
    /\ discAttempt' = discAttempt + 1
    /\ discPc' = "publish"
    /\ UNCHANGED <<discIdx, discRet, pipeVars>>

\* ------------------------------------------------------------------- init
Init ==
    /\ schedPc = "idle"
    /\ cycle = 0
    /\ probe = [k \in Probes |-> "idle"]
    /\ pending = NoResults
    /\ schedLog = <<>>
    /\ chan = <<>>
    /\ pubPc = "recv"
    /\ pubCur = NoResults
    /\ pubLog = <<>>
    /\ pumpPc = "poll"
    /\ pumpEvents = 0
    /\ produced = <<>>
    /\ received = <<>>
    /\ failedCycles = {}
    /\ lastResult = NoResult
    /\ finishOrder = <<>>
    /\ sleeps = 0
    /\ pushed = <<>>
    /\ discPc = "publish"
    /\ discIdx = 1
    /\ discAttempt = 1
    /\ discLog = <<>>
    /\ discRet = "none"

Next ==
    \/ StartCycle
    \/ \E k \in Probes : ProbeFinish(k)
    \/ JoinAll
    \/ Send
    \/ Wake
    \/ Recv
    \/ Publish
    \/ PollOk
    \/ PollErr

Spec == Init /\ [][Next]_vars

\* the pipeline when the publisher task can end abnormally
NextAbort ==
    \/ Next
    \/ PublisherAbort

SpecAbort == Init /\ [][NextAbort]_vars

\* the pipeline when the scheduler task can end abnormally
NextDrop ==
    \/ Next
    \/ SchedulerAbort

SpecDrop == Init /\ [][NextDrop]_vars

\* the publisher task is scheduled whenever it can take a step
FairPubSpec == Spec /\ WF_vars(Recv) /\ WF_vars(Publish)

\* every task is scheduled whenever it can take a step, every probe returns
\* and every sleep elapses
FairSpec ==
    /\ Spec
    /\ WF_vars(StartCycle)
    /\ \A k \in Probes : WF_vars(ProbeFinish(k))
    /\ WF_vars(JoinAll)
    /\ WF_vars(Send)
    /\ WF_vars(Wake)
    /\ WF_vars(Recv)
    /\ WF_vars(Publish)

\* publish_discovery_message called once
DiscNext ==
    \/ DiscPublish
    \/ DiscWake

DiscSpec == Init /\ [][DiscNext]_vars

\* ================================================================ properties
Range(s) == {s[i] : i \in 1..Len(s)}

IsPrefix(a, b) == Len(a) <= Len(b) /\ \A i \in 1..Len(a) : a[i] = b[i]

\* every TestResults record that exists anywhere in the pipeline
Records ==
    (Range(produced) \cup Range(chan) \cup Range(received)
       \cup {pending, pubCur} \cup {pubLog[i].payload : i \in 1..Len(pubLog)})
    \ {NoResults}

ErrorsLogged == Cardinality({i \in 1..Len(schedLog) : schedLog[i] = "error"})

\* C1: a TestResults record exists only for a cycle whose three probes all
\* yielded a value: every record in the pipeline (returned, pending, buffered,
\* received or published) has three values and belongs to a cycle in which no
\* probe failed or could not be joined, and every failed cycle ended in a
\* logged error instead.
C1_AllOrNothing ==
    /\ \A r \in Records :
         /\ r.cycle \notin failedCycles
         /\ r.download = "ok" /\ r.upload = "ok" /\ r.ping = "ok"
    /\ ErrorsLogged = Cardinality(failedCycles)

\* the upload probe failed, download and ping succeeded, the cycle is over and
\* left no record, while an earlier cycle was published
C1_Witness ==
    /\ schedPc = "sleep"
    /\ probe = [download |-> "ok", upload |-> "err", ping |-> "ok"]
    /\ cycle \in failedCycles
    /\ \A r \in Records : r.cycle # cycle
    /\ pubLog # <<>>

\* C2: once poll has returned an error the process is over: no scheduler or
\* publisher step is taken after the pump has left its loop.
C2_FatalPump ==
    [][pumpPc = "exited" => UNCHANGED <<schedVars, pubVars>>]_vars

\* C3: a push onto a channel whose receiver is closed ends the scheduler's
\* loop, and no cycle is started after the warning of the failed push.
C3_ClosedConsumer ==
    /\ [][(schedPc = "send" /\ RxClosed /\ schedPc' # "send")
            => (schedPc' = "exited" /\ schedLog' = Append(schedLog, "warn"))]_vars
    /\ [][("warn" \in Range(schedLog)) => cycle' = cycle]_vars

\* publish attempts made for descriptor i
Attempts(i) ==
    Cardinality({n \in 1..Len(discLog) :
                   discLog[n].ev = "publish"
                   /\ discLog[n].name = DiscoveryMessages[i].name})

\* descriptor i failed on its last allowed attempt
Exhausted(i) ==
    \E n \in 1..Len(discLog) :
        /\ discLog[n].ev = "publish"
        /\ discLog[n].name = DiscoveryMessages[i].name
        /\ discLog[n].attempt = MaxAttempts
        /\ discLog[n].result = "err"

\* C4: when publish_discovery_message is over and a descriptor failed on all
\* 3 attempts, every descriptor after it was attempted all the same.
C4_ExhaustionContinues ==
    discPc = "done" =>
        \A i \in 1..Len(DiscoveryMessages) :
            Exhausted(i) =>
                \A j \in (i + 1)..Len(DiscoveryMessages) : Attempts(j) >= 1

\* the retry discipline of the descriptors the function got to
RetryDiscipline ==
    /\ \A i \in 1..Len(DiscoveryMessages) : Attempts(i) <= MaxAttempts
    /\ \A n \in 1..Len(discLog) : \A m \in (n + 1)..Len(discLog) :
         (discLog[n].ev = "publish" /\ discLog[n].result = "ok")
            => ~(discLog[m].ev = "publish" /\ discLog[m].name = discLog[n].name)
    /\ \A n \in 1..Len(discLog) :
         discLog[n].ev = "sleep" =>
            /\ n > 1
            /\ discLog[n - 1].ev = "publish"
            /\ discLog[n - 1].result = "err"
            /\ discLog[n - 1].name = discLog[n].name
            /\ discLog[n - 1].attempt < MaxAttempts
            /\ n < Len(discLog) =>
                 /\ discLog[n + 1].ev = "publish"
                 /\ discLog[n + 1].name = discLog[n].name
                 /\ discLog[n + 1].attempt = discLog[n - 1].attempt + 1

\* C5: every descriptor gets at least 1 and at most 3 publish attempts, none
\* after its first success, and a sleep stands only between a failed attempt
\* (the first or the second) and the next attempt for the same descriptor.
C5_RetryBound ==
    /\ RetryDiscipline
    /\ discPc = "done" =>
         \A i \in 1..Len(DiscoveryMessages) : Attempts(i) >= 1

\* C6: the channel buffers at most 1 record; while the scheduler is in the
\* push and the buffer is full it stays in the push with its record, and it
\* leaves the push only by appending that record to the buffer and entering
\* the sleep.
C6_BackPressure ==
    /\ [](Len(chan) <= 1)
    /\ [][(schedPc = "send" /\ Len(chan) = 1)
            => (schedPc' = "send" /\ pending' = pending)]_vars
    /\ [][(schedPc = "send" /\ schedPc' # "send")
            => (chan' = Append(chan, pending) /\ schedPc' = "sleep")]_vars
    /\ [][(schedPc # "sleep" /\ schedPc' = "sleep" /\ produced # <<>>
             /\ produced[Len(produced)].cycle = cycle)
            => (schedPc = "send" /\ chan' # <<>>
                  /\ chan'[Len(chan')] = produced[Len(produced)])]_vars

\* the scheduler is blocked in the push of the second record while the first
\* is still buffered
C6_Witness ==
    /\ schedPc = "send"
    /\ Len(chan) = 1
    /\ pending # NoResults
    /\ pending # chan[1]

\* C7: what the publisher has received is a prefix of what the successful
\* cycles produced, in the order they completed.
C7_Fifo == IsPrefix(received, produced)

\* two records received, a third produced and not yet received
C7_Witness ==
    /\ Len(received) >= 2
    /\ Len(produced) > Len(received)

\* C9: the step that ends a failed cycle leaves the channel as it was,
\* produces and pushes nothing, logs an error and takes the scheduler to the
\* sleep; the scheduler never leaves its loop.
C9_CycleFailureSkipped ==
    /\ [][(schedPc = "probing" /\ schedPc' # "probing" /\ AnyFailed(probe))
            => /\ chan' = chan
               /\ produced' = produced
               /\ pending' = NoResults
               /\ schedLog' = Append(schedLog, "error")
               /\ schedPc' = "sleep"]_vars
    /\ [](schedPc # "exited")

\* a cycle failed and a later cycle was started
C9_Witness ==
    /\ \E c \in failedCycles : c < cycle
    /\ "error" \in Range(schedLog)
    /\ schedPc = "probing"

\* C10: the step of a failed publish logs an error, takes the publisher back
\* to recv and changes nothing of the scheduler; the publisher never leaves
\* its loop.
C10_PublishFailureRecovered ==
    /\ [][(pubPc = "publish" /\ Len(pubLog') = Len(pubLog) + 1
             /\ pubLog'[Len(pubLog')].result = "err")
            => /\ pubPc' = "recv"
               /\ pubLog'[Len(pubLog')].level = "error"
               /\ UNCHANGED <<schedVars, chan, cycleVars>>]_vars
    /\ [](pubPc # "exited")

\* a publish failed, the next record was received and published, and the
\* scheduler started a cycle after the failure
C10_Witness ==
    /\ Len(pubLog) >= 2
    /\ pubLog[1].result = "err"
    /\ pubLog[2].result = "ok"
    /\ pubLog[2].payload = received[2]
    /\ cycle = MaxCycles

\* discovery is over: the function returned and every descriptor was
\* published or ran out of attempts
DiscoveryFinished ==
    /\ discPc = "done"
    /\ \A i \in 1..Len(DiscoveryMessages) :
         Exhausted(i) \/ \E n \in 1..Len(discLog) :
                            /\ discLog[n].ev = "publish"
                            /\ discLog[n].name = DiscoveryMessages[i].name
                            /\ discLog[n].result = "ok"

\* C8: the publisher takes no record from the channel, and publishes no state
\* message, before discovery is over for every measurement kind.
C8_BootstrapFirst ==
    (received # <<>> \/ pubLog # <<>>) => DiscoveryFinished

\* C11: the publisher leaves its loop only from recv, with the sender dropped
\* and the buffer empty; once it has left, every record whose send returned Ok
\* has been received and has had its publish attempted, in order.
C11_PublisherTermination ==
    /\ [][(pubPc # "exited" /\ pubPc' = "exited")
            => (pubPc = "recv" /\ schedPc = "exited" /\ chan = <<>>)]_vars
    /\ [](pubPc = "exited" =>
            /\ received = pushed
            /\ Len(pubLog) = Len(pushed)
            /\ \A i \in 1..Len(pushed) : pubLog[i].payload = pushed[i])

\* the sender was dropped and the publisher left its loop after two publishes
C11_Witness ==
    /\ pubPc = "exited"
    /\ schedPc = "exited"
    /\ Len(pushed) >= 2
    /\ Len(pubLog) = Len(pushed)

\* C12: a cycle starts with the three probes running together; the scheduler
\* leaves perform_all_tests only when none of them is running any more, and
\* outside perform_all_tests no probe task is running.
C12_JoinAll ==
    /\ [][(schedPc # "probing" /\ schedPc' = "probing")
            => \A k \in Probes : probe'[k] = "running"]_vars
    /\ [][(schedPc = "probing" /\ schedPc' # "probing")
            => \A k \in Probes : probe[k] # "running"]_vars
    /\ [](schedPc # "probing" => \A k \in Probes : probe[k] # "running")

\* upload failed first, download and ping finished after it, and only then
\* perform_all_tests returned upload's error
C12_Witness ==
    /\ schedPc = "sleep"
    /\ finishOrder = <<"upload", "download", "ping">>
    /\ probe = [download |-> "ok", upload |-> "err", ping |-> "ok"]
    /\ lastResult.error = ProbeError("upload")

ProbeOrder == <<"download", "upload", "ping">>

\* the first probe, in the order download, upload, ping, that has no value
FirstFailed(p) ==
    ProbeOrder[CHOOSE i \in 1..3 :
                  /\ p[ProbeOrder[i]] # "ok"
                  /\ \A j \in 1..(i - 1) : p[ProbeOrder[j]] = "ok"]

\* C13: after a cycle in which some probe failed, the error perform_all_tests
\* returned is that of the first failed probe in the order download, upload,
\* ping: TaskJoinError if its task could not be joined, the probe's own error
\* if it completed with one.
C13_ErrorClassification ==
    (schedPc # "probing" /\ cycle > 0 /\ (\E k \in Probes : probe[k] # "ok")) =>
        /\ ~lastResult.ok
        /\ lastResult.error.type =
             (IF probe[FirstFailed(probe)] = "panic" THEN "TaskJoinError"
              ELSE "ProbeError")
        /\ lastResult.error.probe =
             (IF probe[FirstFailed(probe)] = "panic" THEN "none"
              ELSE FirstFailed(probe))

\* the three probes failed, ping first and download last in time, upload by a
\* join failure: the error returned is download's
C13_Witness ==
    /\ schedPc = "sleep"
    /\ finishOrder = <<"ping", "upload", "download">>
    /\ probe = [download |-> "err", upload |-> "panic", ping |-> "err"]
    /\ lastResult.error = ProbeError("download")

\* C14: every iteration ends in the sleep, whatever the cycle and the push
\* did, and exactly one sleep has elapsed per finished iteration: a cycle
\* starts only when as many sleeps have elapsed as cycles were started.
C14_UniformSleep ==
    /\ [](sleeps = IF schedPc = "idle" THEN cycle ELSE cycle - 1)
    /\ [][(schedPc \in {"probing", "send"} /\ schedPc' \notin {"probing", "send"})
            => schedPc' = "sleep"]_vars
    /\ [][cycle' # cycle => (schedPc = "idle" /\ sleeps = cycle)]_vars

\* a cycle failed, a push succeeded, a push failed, and each of the three
\* iterations was followed by its sleep
C14_Witness ==
    /\ schedPc = "idle"
    /\ "warn" \in Range(schedLog)
    /\ "error" \in Range(schedLog)
    /\ pushed # <<>>
    /\ cycle = 3
    /\ sleeps = 3

\* C15: with every task scheduled, every probe returning and every sleep
\* elapsing, every cycle up to the bound is eventually started and a scheduler
\* in the push eventually reaches its sleep.
C15_NoTerminalState ==
    /\ <>(cycle = MaxCycles)
    /\ (schedPc = "send") ~> (schedPc = "sleep")

\* every cycle of the run succeeded and was pushed
C15_Witness ==
    /\ schedPc = "sleep"
    /\ cycle = MaxCycles
    /\ Len(pushed) = MaxCycles

\* C16: at any point there are as many publish attempts as records received,
\* and no more than successful cycles.
C16_OneAttemptPerSnapshot ==
    /\ Len(pubLog) = Len(received)
    /\ Len(pubLog) <= Len(produced)

\* C16 (amended): there are as many publish attempts as records received, less
\* the one record the publisher has received and not yet passed to publish;
\* attempt i carries record i, and there are no more attempts than successful
\* cycles.
C16_OneAttemptAmended ==
    /\ Len(pubLog) = Len(received) - (IF pubPc = "publish" THEN 1 ELSE 0)
    /\ \A i \in 1..Len(pubLog) : pubLog[i].payload = received[i]
    /\ pubPc = "publish" => pubCur = received[Len(received)]
    /\ Len(pubLog) <= Len(produced)

\* a publish failed, was not retried, and the next record is about to be
\* published
C16_Witness ==
    /\ Len(pubLog) >= 1
    /\ pubLog[Len(pubLog)].result = "err"
    /\ pubPc = "publish"
    /\ Len(received) = Len(pubLog) + 1

\* C17: with the publisher task scheduled, the n-th record whose send returned
\* Ok eventually is the payload of the n-th publish attempt.
C17_EventualPublication ==
    \A n \in 1..MaxCycles :
        (Len(pushed) >= n) ~> (Len(pubLog) >= n /\ pubLog[n].payload = pushed[n])

\* the first publish failed and the second pushed record was published all
\* the same
C17_Witness ==
    /\ Len(pushed) >= 2
    /\ Len(pubLog) >= 2
    /\ pubLog[1].result = "err"
    /\ pubLog[2].payload = pushed[2]

====
